---- MODULE Spec2Model ----
(***************************************************************************)
(* Wardrobe portal: the wardrobe opening calculator page                   *)
(* (src/pages/1_Wardrobe_Calculator.py) and the PIN gate of the Home page  *)
(* (src/Home.py).                                                          *)
(*                                                                         *)
(* Lengths.  The page works in Python floats holding millimetres.  Widths  *)
(* and heights come from number cells with step 10, doors and fixed door   *)
(* widths are integers, so the only fractions the solver produces are the  *)
(* halves of total_buildout_required / 2.0 and the quotient                *)
(* (net_width + total_overlap) / doors.  Inside calculate every length is  *)
(* therefore an integer count of HALF millimetres (H(x) = 2x), which holds *)
(* the halves exactly; the quotient is kept as numerator and denominator.  *)
(* A result field written with int(round(x)) holds whole millimetres; a    *)
(* result field written with round(x, 1) holds half millimetres (one       *)
(* decimal keeps a half exactly).                                          *)
(*                                                                         *)
(* A cell that may be empty (None, NaN or "") is a sequence: <<>> when     *)
(* empty and <<n>> when it holds the number n.                             *)
(***************************************************************************)
EXTENDS Integers, Sequences, FiniteSets, TLC

VARIABLES edited_df, prev_hb, results, reruns, t_in, t_out, n_in, n_out,
          b_in, b_out, authenticated, pin, home_runs

vars == <<edited_df, prev_hb, results, reruns, t_in, t_out, n_in, n_out,
          b_in, b_out, authenticated, pin, home_runs>>

page_vars == <<edited_df, prev_hb, results, reruns>>

helper_vars == <<t_in, t_out, n_in, n_out>>

solver_vars == <<b_in, b_out>>

home_vars == <<authenticated, pin, home_runs>>

-----------------------------------------------------------------------------
(* Cells and arithmetic                                                    *)

NoneVal == <<>>

Blank == <<>>

Num(x) == <<x>>

IsNum(c) == Len(c) = 1

NumVal(c) == c[1]

H(x) == 2 * x

Max(a, b) == IF a >= b THEN a ELSE b

Min(a, b) == IF a <= b THEN a ELSE b

Abs(a) == IF a >= 0 THEN a ELSE 0 - a

(* Mutant: int() alone, the round() forgotten.                             *)
RoundHalfEven_truncating(num, den) == num \div den

(* Python 3 round() of the rational num/den (den > 0): to the nearest      *)
(* integer, a tie to the even one.                                         *)
RoundHalfEven(num, den) ==
  LET q == num \div den
      r == num % den
  IN  IF 2 * r < den THEN q
      ELSE IF 2 * r > den THEN q + 1
      ELSE IF q % 2 = 0 THEN q ELSE q + 1

(* int(round(x)) of a length x held in half millimetres.                   *)
RoundMm(x) == RoundHalfEven(x, 2)

-----------------------------------------------------------------------------
(* Constants of the page                                                   *)

BOTTOM_LINER_THICKNESS == 36

TRACKSET_HEIGHT == 54

BASE_SIDE_LINER_THICKNESS == 18

MIN_T_LINER_THICKNESS == 50

MAX_DOOR_HEIGHT == 2500

MIN_OPENING == 300

MAX_DROPDOWN_LIMIT == 400

FIXED_DOOR_HEIGHT == 2223

FIXED_DOOR_WIDTH_OPTIONS == {610, 762, 914}

DEFAULT_FIXED_DOOR_WIDTH == 762

BLOOR_DROPDOWN == 108

DEFAULT_STYLE_OVERLAP == 25

COVERAGE_TOLERANCE == 2

DOOR_SYSTEM_OPTIONS == {"", "Fixed 2223mm doors", "Made to measure doors"}

NON_CLIENT == "Non-client specific wardrobe"

HOUSEBUILDER_RULES ==
  (NON_CLIENT :> [dropdown |-> 0, locked_total_per_side |-> NoneVal]) @@
  ("Avant" :> [dropdown |-> 90, locked_total_per_side |-> NoneVal]) @@
  ("Homes By Honey" :> [dropdown |-> 90, locked_total_per_side |-> NoneVal]) @@
  ("Bloor" :> [dropdown |-> 108, locked_total_per_side |-> NoneVal]) @@
  ("Story" :> [dropdown |-> 50, locked_total_per_side |-> Num(68)]) @@
  ("Strata" :> [dropdown |-> 50, locked_total_per_side |-> Num(68)]) @@
  ("Jones Homes" :> [dropdown |-> 50, locked_total_per_side |-> Num(68)])

HOUSEBUILDER_OPTIONS == DOMAIN HOUSEBUILDER_RULES

DOOR_STYLE_OVERLAP ==
  ("Classic" :> 35) @@ ("Shaker" :> 75) @@ ("Heritage" :> 25) @@ ("Contour" :> 36)

DOOR_STYLE_OPTIONS == DOMAIN DOOR_STYLE_OVERLAP

FIXED_WIDTH_HOUSEBUILDERS == {"Avant", "Homes By Honey"}

DROPDOWN_SELECT_OPTIONS == {"Auto", "0", "50", "90", "108"}

(* int(float(s)) on the strings the dropdown cell can hold.                *)
DropdownDigits ==
  ("0" :> 0) @@ ("50" :> 50) @@ ("90" :> 90) @@ ("108" :> 108) @@ ("450" :> 450)

EMPTY_ROW ==
  [Width_mm |-> NoneVal,
   Height_mm |-> NoneVal,
   Doors |-> 2,
   Housebuilder |-> NON_CLIENT,
   Door_System |-> "",
   Door_Style |-> "Classic",
   Dropdown_Select |-> "Auto",
   Fixed_Door_Width_mm |-> Num(762),
   End_Panels |-> 0]

-----------------------------------------------------------------------------
(* Helpers                                                                 *)

(* Mutant: the table simplified to n - 1 for every door count.             *)
overlaps_count_uniform(num_doors) == Max(Max(num_doors, 1) - 1, 0)

(* Mutant: one meeting per pair of doors.                                  *)
overlaps_count_per_pair(num_doors) == Max(num_doors, 1) \div 2

overlaps_count(num_doors) ==
  LET n == Max(num_doors, 1)
  IN  IF n = 2 THEN 1
      ELSE IF n \in {3, 4} THEN 2
      ELSE IF n = 5 THEN 4
      ELSE Max(n - 1, 0)

(* Mutant: one bucket for every door count.                                *)
fixed_overlap_total_one_bucket(num_doors) == 150

fixed_overlap_total(num_doors) == IF num_doors = 2 THEN 75 ELSE 150

normalized_door_system(val) ==
  IF val = "" THEN "Made to measure doors" ELSE val

(* <<is_auto, dropdown_mm>> *)
parse_dropdown_select(val) ==
  IF val = "Auto" \/ val = "" THEN <<TRUE, 0>>
  ELSE IF val \in DOMAIN DropdownDigits THEN <<FALSE, DropdownDigits[val]>>
  ELSE <<TRUE, 0>>

(* Mutant: the right side is not deducted.                                 *)
net_width_of_left_only(width, left_total, right_total) == width - left_total

(* net_width = width - left_total - right_total (lines 181, 474, 522, 594) *)
net_width_of(width, left_total, right_total) == width - left_total - right_total

(* Mutant: no 50 mm minimum, the T-liner is exactly what is needed.        *)
apply_t_liner_rule_no_minimum(total_per_side_needed) ==
  IF total_per_side_needed <= H(BASE_SIDE_LINER_THICKNESS)
  THEN <<H(BASE_SIDE_LINER_THICKNESS), 0>>
  ELSE <<total_per_side_needed, total_per_side_needed - H(BASE_SIDE_LINER_THICKNESS)>>

(* Mutant: min() written for max(), the T-liner is never above 50 mm.      *)
apply_t_liner_rule_min_for_max(total_per_side_needed) ==
  IF total_per_side_needed <= H(BASE_SIDE_LINER_THICKNESS)
  THEN <<H(BASE_SIDE_LINER_THICKNESS), 0>>
  ELSE LET extra_needed == total_per_side_needed - H(BASE_SIDE_LINER_THICKNESS)
           t == Min(extra_needed, H(MIN_T_LINER_THICKNESS))
       IN  <<H(BASE_SIDE_LINER_THICKNESS) + t, t>>

(* Mutant: a T-liner of 30 mm is allowed.                                  *)
apply_t_liner_rule_short_minimum(total_per_side_needed) ==
  IF total_per_side_needed <= H(BASE_SIDE_LINER_THICKNESS)
  THEN <<H(BASE_SIDE_LINER_THICKNESS), 0>>
  ELSE LET extra_needed == total_per_side_needed - H(BASE_SIDE_LINER_THICKNESS)
           t == Max(extra_needed, H(30))
       IN  <<H(BASE_SIDE_LINER_THICKNESS) + t, t>>

(* <<total_per_side, t_liner_thickness>>, in half millimetres. *)
apply_t_liner_rule(total_per_side_needed) ==
  IF total_per_side_needed <= H(BASE_SIDE_LINER_THICKNESS)
  THEN <<H(BASE_SIDE_LINER_THICKNESS), 0>>
  ELSE LET extra_needed == total_per_side_needed - H(BASE_SIDE_LINER_THICKNESS)
           t == Max(extra_needed, H(MIN_T_LINER_THICKNESS))
       IN  <<H(BASE_SIDE_LINER_THICKNESS) + t, t>>

(* The text of fmt_side: the rounded total and, with a T-liner, its size.  *)
fmt_side(total, t) ==
  IF t <= 0 THEN <<RoundMm(total), "mm (18mm side liner)">>
  ELSE <<RoundMm(total), "mm (18 + ", RoundMm(t), " T-liner)">>

side_desc(left_total, right_total, left_t, right_t, end_panels) ==
  IF end_panels >= 2 THEN <<"2x end panels (18mm each side)">>
  ELSE IF end_panels = 1 THEN
    IF left_total = H(18) /\ left_t = 0
    THEN <<"Left: 18mm end panel | Right: ">> \o fmt_side(right_total, right_t)
    ELSE IF right_total = H(18) /\ right_t = 0
    THEN <<"Left: ">> \o fmt_side(left_total, left_t) \o <<" | Right: 18mm end panel">>
    ELSE <<"1x end panel | Left: ">> \o fmt_side(left_total, left_t)
           \o <<" | Right: ">> \o fmt_side(right_total, right_t)
  ELSE <<"Left: ">> \o fmt_side(left_total, left_t)
         \o <<" | Right: ">> \o fmt_side(right_total, right_t)

-----------------------------------------------------------------------------
(* Side build-out resolver of the fixed door system                        *)

(* Mutant: "end_panels <= 1" written for "end_panels == 1": with no end    *)
(* panel the left side stays at 18 and the right side takes the rest.      *)
solve_buildout_for_fixed_one_sided(width_mm, door_span_mm, total_overlap_mm, end_panels, locked_total_per_side, rounded_up) ==
  LET coverage == door_span_mm - total_overlap_mm
      total_buildout_required == width_mm - coverage
      Status(left_total, right_total, text) ==
        IF coverage >= net_width_of(width_mm, left_total, right_total) THEN "OK" ELSE text
  IN  IF end_panels >= 2 THEN
        <<H(18), H(18), 0, 0,
          Status(H(18), H(18), "Opening too wide (needs more build-out)")>>
      ELSE IF IsNum(locked_total_per_side) /\ end_panels = 0 THEN
        LET total == H(NumVal(locked_total_per_side))
            t == Max(total - H(18), 0)
        IN  <<total, total, t, t, Status(total, total, "Opening too wide (locked build-out)")>>
      ELSE IF total_buildout_required <= H(36) THEN
        <<H(18), H(18), 0, 0, Status(H(18), H(18), "Opening too wide (check inputs)")>>
      ELSE
        LET left_total == H(18)
            right_needed == Max(total_buildout_required - left_total, H(18))
            right == apply_t_liner_rule(right_needed)
        IN  <<left_total, right[1], 0, right[2],
              Status(left_total, right[1], "Opening too wide (needs more build-out)")>>

(* <<left_total, right_total, left_t, right_t, status>>; lengths in half   *)
(* millimetres, locked_total_per_side a cell holding millimetres.          *)
(*                                                                         *)
(* The resolver computes in IEEE doubles (float(width_mm), line 173).  On  *)
(* whole millimetres every operation is exact.  A width with a fraction    *)
(* that is not a binary one (2773.1) is held here as the whole millimetres *)
(* below it; its double has low bits of its own.  Every operation on it is *)
(* still exact but one: in the even split left = right = required / 2, and *)
(* width - left, whose exact value is coverage + left, has one bit more    *)
(* than a double holds when a power of two lies above the coverage and not *)
(* above coverage + left.  It is then rounded, up or down as the low bits  *)
(* of the width decide, and net_width comes out half an ulp (2.3e-13 for   *)
(* 2773.1, 1524, 150) above or below the coverage it equals exactly.       *)
(* rounded_up says that it came out above.                                 *)
solve_buildout_for_fixed(width_mm, door_span_mm, total_overlap_mm, end_panels, locked_total_per_side, rounded_up) ==
  LET coverage == door_span_mm - total_overlap_mm
      total_buildout_required == width_mm - coverage
      Status(left_total, right_total, text) ==
        IF coverage >= net_width_of(width_mm, left_total, right_total) THEN "OK" ELSE text
      RoundedStatus(left_total, right_total, text) ==
        LET net_width == net_width_of(width_mm, left_total, right_total)
            rounds == \E e \in 0..12 :
                        coverage < H(2^e) /\ H(2^e) <= coverage + left_total
        IN  IF coverage > net_width \/ (coverage = net_width /\ ~(rounded_up /\ rounds))
            THEN "OK" ELSE text
  IN  IF end_panels >= 2 THEN
        <<H(18), H(18), 0, 0,
          Status(H(18), H(18), "Opening too wide (needs more build-out)")>>
      ELSE IF IsNum(locked_total_per_side) /\ end_panels = 0 THEN
        LET total == H(NumVal(locked_total_per_side))
            t == Max(total - H(18), 0)
        IN  <<total, total, t, t, Status(total, total, "Opening too wide (locked build-out)")>>
      ELSE IF total_buildout_required <= H(36) THEN
        <<H(18), H(18), 0, 0, Status(H(18), H(18), "Opening too wide (check inputs)")>>
      ELSE IF end_panels = 1 THEN
        LET left_total == H(18)
            right_needed == Max(total_buildout_required - left_total, H(18))
            right == apply_t_liner_rule(right_needed)
        IN  <<left_total, right[1], 0, right[2],
              Status(left_total, right[1], "Opening too wide (needs more build-out)")>>
      ELSE
        \* total_buildout_required / 2.0: the widths being whole millimetres,
        \* it is an even count of half millimetres and halves exactly.
        LET per_side_needed == total_buildout_required \div 2
            left == apply_t_liner_rule(per_side_needed)
            right == apply_t_liner_rule(per_side_needed)
        IN  <<left[1], right[1], left[2], right[2],
              RoundedStatus(left[1], right[1], "Opening too wide (needs more build-out)")>>

(* No result: the resolver has not been applied.                           *)
NOT_SOLVED == <<>>

-----------------------------------------------------------------------------
(* The calculation of one row                                              *)

ISSUE_CHECK == "Check"

ISSUE_OK == "OK"

ISSUE_REFER == "Refer to floor plan"

REFER_TO_FLOOR_PLAN == "Refer to floor plan (build-out per drawing)"

(* What stands for a raised exception: the page shows it and no result.    *)
RAISED == [Mode |-> "Raised"]

(* Mutant: the selection is parsed but never compared with the rule.       *)
dropdown_check_never_warns(row, hb_required_dropdown) ==
  LET parsed == parse_dropdown_select(row.Dropdown_Select)
  IN  <<parsed[1], parsed[2], <<"OK">> >>

(* The dropdown validation of calculate: <<is_auto, user_dd, status>>.     *)
dropdown_check(row, hb_required_dropdown) ==
  LET parsed == parse_dropdown_select(row.Dropdown_Select)
  IN  IF ~parsed[1] /\ parsed[2] # hb_required_dropdown
      THEN <<parsed[1], parsed[2], <<"Housebuilder expects", hb_required_dropdown, parsed[2]>> >>
      ELSE <<parsed[1], parsed[2], <<"OK">> >>

hb_rule_of(hb) ==
  IF hb \in DOMAIN HOUSEBUILDER_RULES THEN HOUSEBUILDER_RULES[hb]
  ELSE HOUSEBUILDER_RULES[NON_CLIENT]

(* Mutant: warnings do not raise the flag.                                 *)
issue_flag_errors_only(errors, warnings) ==
  IF errors # <<>> THEN ISSUE_CHECK ELSE ISSUE_OK

issue_flag(errors, warnings) ==
  IF errors # <<>> \/ warnings # <<>> THEN ISSUE_CHECK ELSE ISSUE_OK

(* Mutant: the guidance result never says "Check".                         *)
bloor_issue_flag_always_refer(errors, warnings) == ISSUE_REFER

bloor_issue_flag(errors, warnings) ==
  IF warnings # <<>> \/ errors # <<>> THEN ISSUE_CHECK ELSE ISSUE_REFER

bloor_result(row, dd) ==
  LET width == H(NumVal(row.Width_mm))
      warnings == IF dd[3][1] # "OK" THEN <<dd[3]>> ELSE <<>>
      errors == <<>>
      left_total == H(18)
      right_total == H(18)
      net_width == net_width_of(width, left_total, right_total)
  IN  [Mode |-> "Bloor guidance",
       Door_System_Resolved |-> "Fixed 2223mm doors",
       Door_Height_mm |-> FIXED_DOOR_HEIGHT,
       Door_Width_mm |-> Blank,
       Doors_Used |-> row.Doors,
       Dropdown_Height_mm |-> BLOOR_DROPDOWN,
       Dropdown_Type_Status |-> dd[3],
       Side_Left_Total_mm |-> left_total,
       Side_Right_Total_mm |-> right_total,
       T_Liner_Left_mm |-> Blank,
       T_Liner_Right_mm |-> Blank,
       Side_Description |-> <<REFER_TO_FLOOR_PLAN>>,
       Net_Width_mm |-> RoundMm(net_width),
       Total_Overlap_mm |-> Blank,
       Door_Span_mm |-> Blank,
       Coverage_mm |-> Blank,
       Width_Status |-> "",
       Height_Status |-> "",
       Warnings |-> warnings,
       Errors |-> errors,
       Issue |-> bloor_issue_flag(errors, warnings)]

calculate_bloor(row) ==
  bloor_result(row, dropdown_check(row, hb_rule_of(row.Housebuilder).dropdown))

(* Mutant: the comparison of the width check turned round.                 *)
fixed_width_status_reversed(diff) == IF diff > 0 THEN "Opening too wide" ELSE "OK"

(* FIXED 2223 + FIXED WIDTH SOLVER (only for Avant / Homes By Honey).       *)
fixed_width_status(diff) == IF diff < 0 THEN "Opening too wide" ELSE "OK"

fixed_height_status(height, height_stack, door_h) ==
  IF height - height_stack < door_h THEN "Opening too small (height)" ELSE "OK"

(* Mutant: no cap at the dropdown limit.                                   *)
fixed_dropdown_h_uncapped(dropdown_raw) == Max(dropdown_raw, 0)

fixed_dropdown_h(dropdown_raw) ==
  IF dropdown_raw > H(MAX_DROPDOWN_LIMIT) THEN H(MAX_DROPDOWN_LIMIT)
  ELSE Max(dropdown_raw, 0)

(* Mutant: an unrecognised width is reported but kept.                     *)
fixed_door_w_kept(cell) ==
  IF NumVal(cell) \in FIXED_DOOR_WIDTH_OPTIONS THEN <<TRUE, NumVal(cell)>>
  ELSE <<FALSE, NumVal(cell)>>

(* Lines 507-510: <<recognised, door_w in millimetres>>.                   *)
fixed_door_w(cell) ==
  IF NumVal(cell) \in FIXED_DOOR_WIDTH_OPTIONS THEN <<TRUE, NumVal(cell)>>
  ELSE <<FALSE, DEFAULT_FIXED_DOOR_WIDTH>>

(* Lines 522-568, given the dropdown check dd, the door width fw and the   *)
(* sides the resolver returned.                                            *)
fixed_result(row, dd, fw, sides) ==
  LET width == H(NumVal(row.Width_mm))
      height == H(NumVal(row.Height_mm))
      doors == row.Doors
      end_panels == row.End_Panels
      height_stack == H(BOTTOM_LINER_THICKNESS + TRACKSET_HEIGHT)
      total_overlap == H(fixed_overlap_total(doors))
      door_h == H(FIXED_DOOR_HEIGHT)
      door_w == H(fw[2])
      door_span == doors * door_w
      net_width == net_width_of(width, sides[1], sides[2])
      coverage == door_span - total_overlap
      diff == coverage - net_width
      dropdown_raw == height - height_stack - door_h
      errors == (IF diff < 0 THEN <<<<"Opening too wide by", RoundMm(0 - diff)>>>> ELSE <<>>)
                \o (IF height - height_stack < door_h
                    THEN <<<<"Opening too small (height) for fixed door + bottom liner + trackset.">>>>
                    ELSE <<>>)
      warnings == (IF dd[3][1] # "OK" THEN <<dd[3]>> ELSE <<>>)
                  \o (IF fw[1] THEN <<>>
                      ELSE <<<<"Fixed door width not recognised - defaulted to 762mm.">>>>)
                  \o (IF dropdown_raw > H(MAX_DROPDOWN_LIMIT)
                      THEN <<<<"Dropdown would exceed 400mm (cap applied)">>>> ELSE <<>>)
  IN  [Mode |-> "Fixed (Avant/HBH only)",
       Door_System_Resolved |-> normalized_door_system(row.Door_System),
       Door_Height_mm |-> RoundMm(door_h),
       Door_Width_mm |-> Num(RoundMm(door_w)),
       Doors_Used |-> doors,
       Dropdown_Height_mm |-> RoundMm(fixed_dropdown_h(dropdown_raw)),
       Dropdown_Type_Status |-> dd[3],
       Side_Left_Total_mm |-> sides[1],
       Side_Right_Total_mm |-> sides[2],
       T_Liner_Left_mm |-> Num(sides[3]),
       T_Liner_Right_mm |-> Num(sides[4]),
       Side_Description |-> side_desc(sides[1], sides[2], sides[3], sides[4], end_panels),
       Net_Width_mm |-> RoundMm(net_width),
       Total_Overlap_mm |-> Num(RoundMm(total_overlap)),
       Door_Span_mm |-> Num(RoundMm(door_span)),
       Coverage_mm |-> Num(RoundMm(coverage)),
       Width_Status |-> fixed_width_status(diff),
       Height_Status |-> fixed_height_status(height, height_stack, door_h),
       Warnings |-> warnings,
       Errors |-> errors,
       Issue |-> issue_flag(errors, warnings)]

(* Lines 512-520: the resolver is given the span of the doors.  The width  *)
(* of the editor is whole millimetres: no rounding.                        *)
fixed_sides(row, fw) ==
  solve_buildout_for_fixed(H(NumVal(row.Width_mm)),
                           row.Doors * H(fw[2]),
                           H(fixed_overlap_total(row.Doors)),
                           row.End_Panels,
                           hb_rule_of(row.Housebuilder).locked_total_per_side,
                           FALSE)

fixed_solve(row, dd, fw) == fixed_result(row, dd, fw, fixed_sides(row, fw))

(* float() of an emptied cell is NaN (or fails on None) and int() of NaN   *)
(* raises.                                                                 *)
calculate_fixed(row) ==
  IF ~IsNum(row.Fixed_Door_Width_mm) THEN RAISED
  ELSE fixed_solve(row,
                   dropdown_check(row, hb_rule_of(row.Housebuilder).dropdown),
                   fixed_door_w(row.Fixed_Door_Width_mm))

(* DEFAULT: MADE TO MEASURE (everyone else).                               *)
style_overlap(door_style) ==
  IF door_style \in DOMAIN DOOR_STYLE_OVERLAP THEN DOOR_STYLE_OVERLAP[door_style]
  ELSE DEFAULT_STYLE_OVERLAP

(* Mutant: the selection is validated but not used.                        *)
mtm_dropdown_rule_only(is_auto, user_dd, hb_required_dropdown) ==
  Max(0, Min(hb_required_dropdown, MAX_DROPDOWN_LIMIT))

mtm_dropdown(is_auto, user_dd, hb_required_dropdown) ==
  Max(0, Min(IF is_auto THEN hb_required_dropdown ELSE user_dd, MAX_DROPDOWN_LIMIT))

(* Mutant: the end panels do not override the locked build-out.            *)
mtm_sides_lock_first(locked_total, end_panels) ==
  IF IsNum(locked_total)
  THEN <<H(NumVal(locked_total)), H(NumVal(locked_total)),
         Max(H(NumVal(locked_total)) - H(18), 0), Max(H(NumVal(locked_total)) - H(18), 0)>>
  ELSE <<H(18), H(18), 0, 0>>

(* Mutant: with one end panel the other side takes the locked build-out.   *)
mtm_sides_one_panel_locked(locked_total, end_panels) ==
  IF end_panels >= 2 THEN <<H(18), H(18), 0, 0>>
  ELSE IF end_panels = 1 THEN
    IF IsNum(locked_total)
    THEN <<H(18), H(NumVal(locked_total)), 0, Max(H(NumVal(locked_total)) - H(18), 0)>>
    ELSE <<H(18), H(18), 0, 0>>
  ELSE IF IsNum(locked_total)
  THEN <<H(NumVal(locked_total)), H(NumVal(locked_total)),
         Max(H(NumVal(locked_total)) - H(18), 0), Max(H(NumVal(locked_total)) - H(18), 0)>>
  ELSE <<H(18), H(18), 0, 0>>

(* Mutant: the locked build-out of the rule is not applied.                *)
mtm_sides_lock_ignored(locked_total, end_panels) == <<H(18), H(18), 0, 0>>

(* <<left_total, right_total, left_t, right_t>> in half millimetres.       *)
mtm_sides(locked_total, end_panels) ==
  LET first == IF IsNum(locked_total) /\ end_panels = 0
               THEN LET total == H(NumVal(locked_total))
                    IN  <<total, total, Max(total - H(18), 0), Max(total - H(18), 0)>>
               ELSE <<H(18), H(18), 0, 0>>
  IN  IF end_panels >= 2 THEN <<H(18), H(18), 0, 0>>
      ELSE IF end_panels = 1 THEN <<H(18), H(18), 0, 0>>
      ELSE first

(* Mutant: no cap at the maximum door height.                              *)
mtm_door_h_uncapped(raw_door_h) == Max(raw_door_h, 0)

mtm_door_h(raw_door_h) == Max(Min(raw_door_h, H(MAX_DOOR_HEIGHT)), 0)

(* Mutant: a net width of 0 passes.                                        *)
mtm_width_status_zero_ok(net_width) ==
  IF net_width >= 0 THEN "OK" ELSE "Opening too small (width)"

mtm_width_status(net_width) ==
  IF net_width > 0 THEN "OK" ELSE "Opening too small (width)"

(* Mutant: a door height of 0 passes.                                      *)
mtm_height_status_zero_ok(door_h) ==
  IF door_h >= 0 THEN "OK" ELSE "Opening too small (height)"

mtm_height_status(door_h) ==
  IF door_h > 0 THEN "OK" ELSE "Opening too small (height)"

(* Lines 594-640, given the dropdown check dd and the sides.               *)
mtm_result(row, dd, sides) ==
  LET width == H(NumVal(row.Width_mm))
      height == H(NumVal(row.Height_mm))
      doors == row.Doors
      end_panels == row.End_Panels
      height_stack == H(BOTTOM_LINER_THICKNESS + TRACKSET_HEIGHT)
      total_overlap == H(overlaps_count(doors) * style_overlap(row.Door_Style))
      dropdown_h == H(mtm_dropdown(dd[1], dd[2], hb_rule_of(row.Housebuilder).dropdown))
      net_width == net_width_of(width, sides[1], sides[2])
      door_h == mtm_door_h(height - height_stack - dropdown_h)
      errors == (IF net_width <= 0
                 THEN <<<<"Opening too small (width) after side deductions.">>>> ELSE <<>>)
                \o (IF door_h <= 0
                    THEN <<<<"Opening too small (height) after bottom/track/dropdown deductions.">>>>
                    ELSE <<>>)
      \* door_w = door_w_num / door_w_den millimetres; 0 when doors = 0.
      door_w_num == IF doors # 0 THEN net_width + total_overlap ELSE 0
      door_w_den == IF doors # 0 THEN 2 * doors ELSE 1
      \* doors * door_w: the float product is within an ulp of this value,
      \* a whole number of millimetres, and rounds to it.
      door_span == door_w_num
      coverage == door_span - total_overlap
      delta == coverage - net_width
      warnings == (IF dd[3][1] # "OK" THEN <<dd[3]>> ELSE <<>>)
                  \o (IF net_width > 0 /\ Abs(delta) > H(COVERAGE_TOLERANCE)
                      THEN <<<<"Coverage mismatch vs net width by", RoundMm(delta)>>>>
                      ELSE <<>>)
  IN  [Mode |-> "Made to measure",
       Door_System_Resolved |-> "Made to measure doors",
       Door_Height_mm |-> RoundMm(door_h),
       Door_Width_mm |-> Num(RoundHalfEven(door_w_num, door_w_den)),
       Doors_Used |-> doors,
       Dropdown_Height_mm |-> RoundMm(dropdown_h),
       Dropdown_Type_Status |-> dd[3],
       Side_Left_Total_mm |-> sides[1],
       Side_Right_Total_mm |-> sides[2],
       T_Liner_Left_mm |-> Num(sides[3]),
       T_Liner_Right_mm |-> Num(sides[4]),
       Side_Description |-> side_desc(sides[1], sides[2], sides[3], sides[4], end_panels),
       Net_Width_mm |-> RoundMm(net_width),
       Total_Overlap_mm |-> Num(RoundMm(total_overlap)),
       Door_Span_mm |-> Num(RoundMm(door_span)),
       Coverage_mm |-> Num(RoundMm(coverage)),
       Width_Status |-> mtm_width_status(net_width),
       Height_Status |-> mtm_height_status(door_h),
       Warnings |-> warnings,
       Errors |-> errors,
       Issue |-> issue_flag(errors, warnings)]

calculate_mtm(row) ==
  mtm_result(row,
             dropdown_check(row, hb_rule_of(row.Housebuilder).dropdown),
             mtm_sides(hb_rule_of(row.Housebuilder).locked_total_per_side, row.End_Panels))

(* Mutant: the fixed door system is solved for every housebuilder.         *)
use_fixed_solver_any_housebuilder(row) ==
  normalized_door_system(row.Door_System) = "Fixed 2223mm doors"

use_fixed_solver(row) ==
  /\ row.Housebuilder \in FIXED_WIDTH_HOUSEBUILDERS
  /\ normalized_door_system(row.Door_System) = "Fixed 2223mm doors"

(* Mutant: the guidance-only housebuilder is solved like any other.        *)
calculate_without_guidance(row) ==
  IF use_fixed_solver(row) THEN calculate_fixed(row) ELSE calculate_mtm(row)

calculate(row) ==
  IF row.Housebuilder = "Bloor" THEN calculate_bloor(row)
  ELSE IF use_fixed_solver(row) THEN calculate_fixed(row)
  ELSE calculate_mtm(row)

-----------------------------------------------------------------------------
(* The page: one run of the script, top to bottom                          *)

(* No result: the run stopped at "Enter width and height above".           *)
STOPPED == [Mode |-> "Stopped"]

(* No result yet: the script has not run in this session.                  *)
NOT_RUN == [Mode |-> "Not run"]

(* Mutant: the change is seen but prev_hb is not updated.                  *)
hb_rerun_check_prev_kept(df, prev) ==
  LET new_hb == df.Housebuilder
  IN  IF ~IsNum(prev) THEN <<Num(new_hb), FALSE>>
      ELSE IF new_hb # NumVal(prev) THEN <<prev, TRUE>>
      ELSE <<prev, FALSE>>

(* Lines 429-435: <<prev_hb after the run, whether st.rerun() was called>> *)
hb_rerun_check(df, prev) ==
  LET new_hb == df.Housebuilder
  IN  IF ~IsNum(prev) THEN <<Num(new_hb), FALSE>>
      ELSE IF new_hb # NumVal(prev) THEN <<Num(new_hb), TRUE>>
      ELSE <<prev, FALSE>>

(* Mutant: a result once computed is kept for the session.                 *)
run_results_cached(df) ==
  IF results.Mode \notin {"Not run", "Stopped"} THEN results
  ELSE IF ~IsNum(df.Width_mm) \/ ~IsNum(df.Height_mm) THEN STOPPED
  ELSE calculate(df)

(* Lines 437-440 and 643: the rest of a run that was not cut by a rerun.   *)
run_results(df) ==
  IF ~IsNum(df.Width_mm) \/ ~IsNum(df.Height_mm) THEN STOPPED
  ELSE calculate(df)

(* The script run to its end, reruns included: st.rerun() abandons the run *)
(* and starts the script again on the same widget values.  The run after a *)
(* rerun is followed here; reruns = 2 stands for a run that reruns again.  *)
script_run(df, prev) ==
  LET first == hb_rerun_check(df, prev)
      second == hb_rerun_check(df, first[1])
  IN  [edited_df |-> df,
       prev_hb |-> IF first[2] THEN second[1] ELSE first[1],
       reruns |-> IF ~first[2] THEN 0 ELSE IF ~second[2] THEN 1 ELSE 2,
       results |-> run_results(df)]

(* reset_inputs, the on_click callback of "Reset opening": the table's     *)
(* edits and prev_hb are deleted and the seed is the empty row again.      *)
reset_inputs(df, prev) == [edited_df |-> EMPTY_ROW, prev_hb |-> NoneVal]

-----------------------------------------------------------------------------
(* Home.py: the PIN gate                                                   *)

(* The PIN, a string: the sequence of its characters.                      *)
CORRECT_PIN == <<"1", "9", "6", "6">>

LOGIN == "Login screen"

INCORRECT_PIN == "Login screen, Incorrect PIN"

MAIN_APP == "Main app"

(* Mutant: st.stop() left out, the login screen runs on into the main app. *)
home_run_no_stop(auth, p) ==
  LET at_gate == IF auth = NoneVal THEN FALSE ELSE NumVal(auth)
  IN  IF ~at_gate THEN
        IF p # <<>> /\ p = CORRECT_PIN
        THEN [at_gate |-> at_gate, pin |-> p, authenticated |-> TRUE, shown |-> LOGIN,
              rerun |-> TRUE]
        ELSE [at_gate |-> at_gate, pin |-> p, authenticated |-> at_gate, shown |-> MAIN_APP,
              rerun |-> FALSE]
      ELSE [at_gate |-> at_gate, pin |-> <<>>, authenticated |-> at_gate, shown |-> MAIN_APP,
            rerun |-> FALSE]

(* One run of Home.py on the session flag (a cell, empty when the key is   *)
(* not in st.session_state) and the text of the PIN box: the flag at the   *)
(* gate (line 22), the PIN the box returned (none when the box was not     *)
(* rendered), the flag at the end of the run, what was rendered and        *)
(* whether the run ended in st.rerun().                                    *)
home_run(auth, p) ==
  LET at_gate == IF auth = NoneVal THEN FALSE ELSE NumVal(auth)
  IN  IF ~at_gate THEN
        IF p # <<>> /\ p = CORRECT_PIN
        THEN [at_gate |-> at_gate, pin |-> p, authenticated |-> TRUE, shown |-> LOGIN,
              rerun |-> TRUE]
        ELSE IF p # <<>>
        THEN [at_gate |-> at_gate, pin |-> p, authenticated |-> at_gate,
              shown |-> INCORRECT_PIN, rerun |-> FALSE]
        ELSE [at_gate |-> at_gate, pin |-> p, authenticated |-> at_gate, shown |-> LOGIN,
              rerun |-> FALSE]
      ELSE [at_gate |-> at_gate, pin |-> <<>>, authenticated |-> at_gate, shown |-> MAIN_APP,
            rerun |-> FALSE]

(* The runs one interaction causes: the run and, after st.rerun(), the run *)
(* that follows it on the same session.                                    *)
home_script(auth, p) ==
  LET first == home_run(auth, p)
      second == home_run(Num(first.authenticated), p)
  IN  IF first.rerun THEN <<first, second>> ELSE <<first>>

-----------------------------------------------------------------------------
(* Inputs                                                                  *)

MaxDoors == 6

MaxNeeded == 170

MaxCount == 8

(* Openings: too narrow for any side deduction; as wide as two locked 68   *)
(* mm build-outs and no wider; 105 mm of build-out for two 610 doors; 64 / *)
(* 751 mm of build-out for three / two 762 doors.                          *)
WidthInputs == {30, 136, 1250, 2200}

(* Below the height stack; a 2223 door with a 287 mm dropdown; a dropdown  *)
(* above the 400 mm limit and a made-to-measure door above 2500.           *)
HeightInputs == {60, 2600, 2800}

DoorsInputs == 2..MaxDoors

HousebuilderInputs ==
  {NON_CLIENT, "Avant", "Homes By Honey", "Bloor", "Story", "Unlisted builder"}

DoorSystemInputs == DOOR_SYSTEM_OPTIONS \cup {"Unlisted system"}

DoorStyleInputs == {"Classic", "Shaker", "Unlisted style"}

(* The five options and a number above the 400 mm limit.                   *)
DropdownInputs == DROPDOWN_SELECT_OPTIONS \cup {"450"}

(* The three options, a width that is none of them, and an emptied cell.   *)
FixedWidthInputs == {Num(610), Num(762), Num(914), Num(700), NoneVal}

EndPanelInputs == {0, 1, 2}

MinSolverWidth == 1100

MaxExtra == 200

(* The resolver on its own: openings from 45 mm narrower than two 610      *)
(* doors cover to 230 mm wider than they cover, and two openings so wide   *)
(* that the door and one side reach past 2048 mm.                          *)
SolverWidthInputs ==
  {H(w) : w \in MinSolverWidth..(MinSolverWidth + MaxExtra)} \cup {H(2773), H(3000)}

SolverSpanInputs == {H(2 * 610), H(2 * 762)}

SolverOverlapInputs == {H(75), H(150)}

SolverLockInputs == {NoneVal, Num(68)}

(* The arguments of the resolver.  Only a width that is not exact can be   *)
(* rounded up.                                                             *)
SolverInputs ==
  {b \in [width_mm : SolverWidthInputs,
          door_span_mm : SolverSpanInputs,
          total_overlap_mm : SolverOverlapInputs,
          end_panels : EndPanelInputs,
          locked_total_per_side : SolverLockInputs,
          exact : BOOLEAN,
          rounded_up : BOOLEAN] : b.exact => ~b.rounded_up}

MaxPinLen == 4

PinDigits == {"1", "6", "9"}

(* What can be typed in the PIN box: nothing, or up to MaxPinLen digits.   *)
PinInputs == UNION {[1..n -> PinDigits] : n \in 0..MaxPinLen}

(* The rows calculate is applied to: width and height are entered.         *)
RowInputs ==
  [Width_mm : {Num(w) : w \in WidthInputs},
   Height_mm : {Num(h) : h \in HeightInputs},
   Doors : DoorsInputs,
   Housebuilder : HousebuilderInputs,
   Door_System : DoorSystemInputs,
   Door_Style : DoorStyleInputs,
   Dropdown_Select : DropdownInputs,
   Fixed_Door_Width_mm : FixedWidthInputs,
   End_Panels : EndPanelInputs]

(* What the editor of the page session is given to choose from.            *)
EditWidthInputs == {Num(2200), NoneVal}

EditHeightInputs == {Num(2600), NoneVal}

EditDoorsInputs == {2, 3}

EditHousebuilderInputs == {NON_CLIENT, "Avant", "Bloor", "Story"}

EditDoorStyleInputs == {"Classic", "Shaker"}

EditDropdownInputs == {"Auto", "50"}

EditFixedWidthInputs == {Num(610), Num(762)}

-----------------------------------------------------------------------------
(* The page session: an edit of one cell (or a button) and the script run  *)
(* it causes                                                               *)

Shown(r) ==
  /\ edited_df' = r.edited_df
  /\ prev_hb' = r.prev_hb
  /\ reruns' = r.reruns
  /\ results' = r.results
  /\ UNCHANGED <<helper_vars, solver_vars, home_vars>>

Run(df, prev) == Shown(script_run(df, prev))

EditWidth ==
  \E v \in EditWidthInputs :
    /\ v # edited_df.Width_mm
    /\ Run([edited_df EXCEPT !.Width_mm = v], prev_hb)

EditHeight ==
  \E v \in EditHeightInputs :
    /\ v # edited_df.Height_mm
    /\ Run([edited_df EXCEPT !.Height_mm = v], prev_hb)

EditDoors ==
  \E v \in EditDoorsInputs :
    /\ v # edited_df.Doors
    /\ Run([edited_df EXCEPT !.Doors = v], prev_hb)

EditHousebuilder ==
  \E v \in EditHousebuilderInputs :
    /\ v # edited_df.Housebuilder
    /\ Run([edited_df EXCEPT !.Housebuilder = v], prev_hb)

EditDoorSystem ==
  \E v \in DOOR_SYSTEM_OPTIONS :
    /\ v # edited_df.Door_System
    /\ Run([edited_df EXCEPT !.Door_System = v], prev_hb)

EditDoorStyle ==
  \E v \in EditDoorStyleInputs :
    /\ v # edited_df.Door_Style
    /\ Run([edited_df EXCEPT !.Door_Style = v], prev_hb)

EditDropdownSelect ==
  \E v \in EditDropdownInputs :
    /\ v # edited_df.Dropdown_Select
    /\ Run([edited_df EXCEPT !.Dropdown_Select = v], prev_hb)

EditFixedDoorWidth ==
  \E v \in EditFixedWidthInputs :
    /\ v # edited_df.Fixed_Door_Width_mm
    /\ Run([edited_df EXCEPT !.Fixed_Door_Width_mm = v], prev_hb)

EditEndPanels ==
  \E v \in EndPanelInputs :
    /\ v # edited_df.End_Panels
    /\ Run([edited_df EXCEPT !.End_Panels = v], prev_hb)

(* "Reset opening": the callback, then the script.                         *)
ResetOpening ==
  \E r \in {reset_inputs(edited_df, prev_hb)} : Run(r.edited_df, r.prev_hb)

(* A run with no edit: the first load, or any other interaction.           *)
PlainRun ==
  \E df \in {edited_df} : Run(df, prev_hb)

PageInit ==
  /\ edited_df = EMPTY_ROW
  /\ prev_hb = NoneVal
  /\ results = NOT_RUN
  /\ reruns = 0

HelperIdle ==
  /\ t_in = 0
  /\ t_out = apply_t_liner_rule(0)
  /\ n_in = 2
  /\ n_out = overlaps_count(2)

(* The resolver as loaded: not applied yet.                                *)
SolverIdle ==
  /\ b_in = [width_mm |-> H(MinSolverWidth), door_span_mm |-> H(2 * 610),
             total_overlap_mm |-> H(75), end_panels |-> 0,
             locked_total_per_side |-> NoneVal, exact |-> TRUE, rounded_up |-> FALSE]
  /\ b_out = NOT_SOLVED

(* Home.py not yet run in the session: no key in st.session_state.         *)
HomeIdle ==
  /\ authenticated = NoneVal
  /\ pin = <<>>
  /\ home_runs = <<>>

Init == PageInit /\ HelperIdle /\ SolverIdle /\ HomeIdle

Next ==
  \/ EditWidth
  \/ EditHeight
  \/ EditDoors
  \/ EditHousebuilder
  \/ EditDoorSystem
  \/ EditDoorStyle
  \/ EditDropdownSelect
  \/ EditFixedDoorWidth
  \/ EditEndPanels
  \/ ResetOpening
  \/ PlainRun

Spec == Init /\ [][Next]_vars

-----------------------------------------------------------------------------
(* calculate on its own: line 643 applies it to the row of the editor.     *)
(* The row is drawn from RowInputs and calculate is applied to it once.    *)

CalcInit ==
  /\ edited_df \in RowInputs
  /\ prev_hb = Num(edited_df.Housebuilder)
  /\ results = NOT_RUN
  /\ reruns = 0
  /\ HelperIdle
  /\ SolverIdle
  /\ HomeIdle

Calculate ==
  /\ results = NOT_RUN
  /\ results' = calculate(edited_df)
  /\ UNCHANGED <<edited_df, prev_hb, reruns>>
  /\ UNCHANGED <<helper_vars, solver_vars, home_vars>>

CalcSpec == CalcInit /\ [][Calculate]_vars

-----------------------------------------------------------------------------
(* The helpers on their own: each is applied to an input drawn from a      *)
(* bounded set, the page left as loaded.                                   *)

ApplyTLinerRule ==
  \E x \in 0..MaxNeeded :
    /\ t_in' = x
    /\ t_out' = apply_t_liner_rule(x)
    /\ UNCHANGED <<n_in, n_out>>
    /\ UNCHANGED <<page_vars, solver_vars, home_vars>>

CountOverlaps ==
  \E n \in 0..MaxCount :
    /\ n_in' = n
    /\ n_out' = overlaps_count(n)
    /\ UNCHANGED <<t_in, t_out>>
    /\ UNCHANGED <<page_vars, solver_vars, home_vars>>

HelperNext == ApplyTLinerRule \/ CountOverlaps

HelperSpec == Init /\ [][HelperNext]_vars

-----------------------------------------------------------------------------
(* The side build-out resolver on its own: its arguments are drawn from   *)
(* SolverInputs and it is applied to them once.                            *)

SolverInit ==
  /\ b_in \in SolverInputs
  /\ b_out = NOT_SOLVED
  /\ PageInit
  /\ HelperIdle
  /\ HomeIdle

SolveBuildout ==
  /\ b_out = NOT_SOLVED
  /\ b_out' = solve_buildout_for_fixed(b_in.width_mm, b_in.door_span_mm,
                                       b_in.total_overlap_mm, b_in.end_panels,
                                       b_in.locked_total_per_side, b_in.rounded_up)
  /\ UNCHANGED <<b_in, page_vars, helper_vars, home_vars>>

SolverSpec == SolverInit /\ [][SolveBuildout]_vars

-----------------------------------------------------------------------------
(* The Home page session: an interaction and the runs it causes            *)

HomeShown(runs, p) ==
  /\ home_runs' = runs
  /\ authenticated' = Num(runs[Len(runs)].authenticated)
  \* a widget that a run did not render loses its value
  /\ pin' = IF runs[Len(runs)].shown = MAIN_APP THEN <<>> ELSE p
  /\ UNCHANGED <<page_vars, helper_vars, solver_vars>>

(* The page is opened, or runs again with the widgets as they are.         *)
HomeLoad == \E p \in {pin} : HomeShown(home_script(authenticated, p), p)

(* A PIN is typed into the box of the login screen.                        *)
EnterPin ==
  \E p \in PinInputs :
    /\ home_runs # <<>>
    /\ home_runs[Len(home_runs)].shown # MAIN_APP
    /\ p # pin
    /\ HomeShown(home_script(authenticated, p), p)

HomeNext == HomeLoad \/ EnterPin

HomeSpec == Init /\ [][HomeNext]_vars

-----------------------------------------------------------------------------
(* Properties                                                              *)

IsMtm == results.Mode = "Made to measure"

IsFixed == results.Mode = "Fixed (Avant/HBH only)"

IsBloor == results.Mode = "Bloor guidance"

Solved == IsMtm \/ IsFixed \/ IsBloor

Calculated == results.Mode # "Not run"

InWidth == H(NumVal(edited_df.Width_mm))

InHeight == H(NumVal(edited_df.Height_mm))

(* What the editor of the page accepts: the number cells of width and      *)
(* height have min_value 300; housebuilder, door system, door style and    *)
(* dropdown are select boxes.                                              *)
Enterable ==
  /\ NumVal(edited_df.Width_mm) >= MIN_OPENING
  /\ NumVal(edited_df.Height_mm) >= MIN_OPENING
  /\ edited_df.Housebuilder \in HOUSEBUILDER_OPTIONS
  /\ edited_df.Door_Style \in DOOR_STYLE_OPTIONS
  /\ edited_df.Door_System \in DOOR_SYSTEM_OPTIONS
  /\ edited_df.Dropdown_Select \in DROPDOWN_SELECT_OPTIONS

(* C1: overlaps_count returns 1 for 2 doors, 2 for 3 doors, 2 for 4 doors, *)
(* 4 for 5 doors and door_count - 1 for every other door count (5 for 6    *)
(* doors, 6 for 7 doors).                                                  *)
C1_OverlapsCount ==
  /\ n_in = 2 => n_out = 1
  /\ n_in = 3 => n_out = 2
  /\ n_in = 4 => n_out = 2
  /\ n_in = 5 => n_out = 4
  /\ n_in = 6 => n_out = 5
  /\ n_in = 7 => n_out = 6
  /\ n_in >= 6 => n_out = n_in - 1

C1_Witness == n_in = 7 /\ n_out = 6

(* C2: apply_t_liner_rule(x) returns (18, 0) for every x <= 18; for every  *)
(* x > 18 it returns t_liner = max(x - 18, 50) and total = 18 + t_liner,   *)
(* so any x above 18 up to 68 gives (68, 50) and x = 80 gives (80, 62).    *)
C2_TLinerRule ==
  /\ t_in <= H(18) => t_out = <<H(18), 0>>
  /\ t_in > H(18) =>
       /\ t_out[2] = Max(t_in - H(18), H(50))
       /\ t_out[1] = H(18) + t_out[2]
  /\ (t_in > H(18) /\ t_in <= H(68)) => t_out = <<H(68), H(50)>>
  /\ t_in = H(80) => t_out = <<H(80), H(62)>>

(* 18.5 mm, the least input above the floor, jumps to the 50 mm T-liner.   *)
C2_Witness == t_in = H(18) + 1 /\ t_out = <<H(68), H(50)>>

(* C3 as stated: whenever end_panel_count is 2 the result has side_left =  *)
(* side_right = 18 and both T-liners = 0, for every housebuilder, locked   *)
(* or not, every door system and every width, height and door count.       *)
C3_AsStated ==
  (Calculated /\ Enterable /\ results # RAISED /\ edited_df.End_Panels = 2) =>
    /\ results.Side_Left_Total_mm = H(18)
    /\ results.Side_Right_Total_mm = H(18)
    /\ results.T_Liner_Left_mm = Num(0)
    /\ results.T_Liner_Right_mm = Num(0)

(* C3 amended: whenever end_panel_count is 2 the result has side_left =    *)
(* side_right = 18 for every housebuilder, locked or not, every door       *)
(* system and every width, height and door count; both T-liners are 0 in   *)
(* every made-to-measure and fixed-size result, and the guidance-only      *)
(* result reports no T-liner figure at all (blank cells, not 0).           *)
C3_TwoEndPanels ==
  (Calculated /\ results # RAISED /\ edited_df.End_Panels = 2) =>
    /\ Solved
    /\ results.Side_Left_Total_mm = H(18)
    /\ results.Side_Right_Total_mm = H(18)
    /\ IF edited_df.Housebuilder = "Bloor"
       THEN results.T_Liner_Left_mm = Blank /\ results.T_Liner_Right_mm = Blank
       ELSE results.T_Liner_Left_mm = Num(0) /\ results.T_Liner_Right_mm = Num(0)

(* Two end panels on a housebuilder whose rule locks 68 mm per side.       *)
C3_Witness ==
  /\ Solved
  /\ edited_df.End_Panels = 2
  /\ IsNum(hb_rule_of(edited_df.Housebuilder).locked_total_per_side)
  /\ results.Side_Left_Total_mm = H(18)
  /\ results.T_Liner_Right_mm = Num(0)

(* C4: in every result the solver returns (made to measure, fixed size and *)
(* guidance only) net_width equals the opening width minus the reported    *)
(* left side total minus the reported right side total.                    *)
C4_NetWidth ==
  (Calculated /\ results # RAISED) =>
    /\ Solved
    /\ H(results.Net_Width_mm) =
         InWidth - results.Side_Left_Total_mm - results.Side_Right_Total_mm

(* A fixed-size result whose sides are 375.5 mm each.                      *)
C4_Witness ==
  /\ IsFixed
  /\ results.Side_Left_Total_mm % 2 = 1
  /\ results.Side_Right_Total_mm > H(68)
  /\ H(results.Net_Width_mm) =
       InWidth - results.Side_Left_Total_mm - results.Side_Right_Total_mm

(* The made-to-measure sums of a result, in whole millimetres.              *)
MtmReportedSpan == NumVal(results.Door_Width_mm) * edited_df.Doors

MtmNetPlusOverlap == results.Net_Width_mm + NumVal(results.Total_Overlap_mm)

(* C5 as stated: for every made-to-measure solve with net_width > 0 and    *)
(* door_count > 0, door_width * door_count equals net_width +              *)
(* total_overlap, and with the door width rounded to whole millimetres as  *)
(* reported the two differ by never more than 1 mm.  Stated of the         *)
(* openings the editor accepts.                                            *)
C5_AsStated ==
  (IsMtm /\ Enterable /\ results.Net_Width_mm > 0 /\ edited_df.Doors > 0) =>
    /\ NumVal(results.Door_Span_mm) = MtmNetPlusOverlap
    /\ Abs(MtmReportedSpan - MtmNetPlusOverlap) <= 1

(* C5 amended: for every made-to-measure solve with net_width > 0 and      *)
(* door_count > 0 the exact door_width * door_count (the reported door     *)
(* span) equals net_width + total_overlap, and with the door width rounded *)
(* to whole millimetres as reported the two differ by at most half a       *)
(* millimetre per door (door_count / 2 mm), which exceeds 1 mm from four   *)
(* doors on.                                                               *)
C5_RoundingDrift ==
  (IsMtm /\ results.Net_Width_mm > 0 /\ edited_df.Doors > 0) =>
    /\ NumVal(results.Door_Span_mm) = MtmNetPlusOverlap
    /\ 2 * Abs(MtmReportedSpan - MtmNetPlusOverlap) <= edited_df.Doors

(* Four doors of 558.5 mm are reported as 558 mm: 2232 against 2234.       *)
C5_Witness ==
  /\ IsMtm
  /\ results.Net_Width_mm > 0
  /\ edited_df.Doors = 4
  /\ Abs(MtmReportedSpan - MtmNetPlusOverlap) = 2

(* The fixed-size sums of a result, in half millimetres.                   *)
FixedSides == results.Side_Left_Total_mm + results.Side_Right_Total_mm

FixedRequired ==
  InWidth - (H(NumVal(results.Door_Span_mm)) - H(NumVal(results.Total_Overlap_mm)))

C7_AsStated ==
  ((IsMtm \/ IsFixed) /\ Enterable) =>
    /\ results.Issue \in {ISSUE_OK, ISSUE_CHECK}
    /\ results.Issue = ISSUE_OK <=>
         (results.Width_Status = "OK" /\ results.Height_Status = "OK")

(* C7 amended: for every made-to-measure or fixed-size result the issue    *)
(* flag is "OK" if and only if width_status is OK, height_status is OK and *)
(* no warning is recorded (dropdown selection against the housebuilder's,  *)
(* unrecognised fixed width, capped dropdown); in every other case it is   *)
(* "Check".                                                                *)
C7_IssueFlag ==
  (IsMtm \/ IsFixed) =>
    /\ results.Issue \in {ISSUE_OK, ISSUE_CHECK}
    /\ results.Issue = ISSUE_OK <=>
         /\ results.Width_Status = "OK"
         /\ results.Height_Status = "OK"
         /\ results.Warnings = <<>>

(* Both statuses OK, one warning, "Check".                                 *)
C7_Witness ==
  /\ IsMtm \/ IsFixed
  /\ Enterable
  /\ results.Width_Status = "OK"
  /\ results.Height_Status = "OK"
  /\ Len(results.Warnings) = 1
  /\ results.Issue = ISSUE_CHECK

(* C8: for the guidance-only housebuilder (Bloor), whatever the width,     *)
(* height, door count, door system, door style, end panels and dropdown    *)
(* selection, the result holds no numeric door_width, holds the explicit   *)
(* refer-to-floor-plan indicator, and echoes only the constants            *)
(* door_height = 2223 and dropdown = 108: no T-liner, overlap, span,       *)
(* coverage, width status or height status is computed.                    *)
C8_GuidanceOnly ==
  (Calculated /\ edited_df.Housebuilder = "Bloor") =>
    /\ IsBloor
    /\ ~IsNum(results.Door_Width_mm)
    /\ results.Side_Description[1] = REFER_TO_FLOOR_PLAN
    /\ results.Door_Height_mm = 2223
    /\ results.Dropdown_Height_mm = 108
    /\ results.T_Liner_Left_mm = Blank
    /\ results.T_Liner_Right_mm = Blank
    /\ results.Total_Overlap_mm = Blank
    /\ results.Door_Span_mm = Blank
    /\ results.Coverage_mm = Blank
    /\ results.Width_Status = ""
    /\ results.Height_Status = ""

(* An absurd opening (30 wide, 60 high) with a dropdown of 50 selected.    *)
C8_Witness ==
  /\ IsBloor
  /\ edited_df.Width_mm = Num(30)
  /\ edited_df.Height_mm = Num(60)
  /\ edited_df.Dropdown_Select = "50"
  /\ ~IsNum(results.Door_Width_mm)
  /\ results.Dropdown_Height_mm = 108

(* C9 as stated: for the guidance-only housebuilder the issue flag is the  *)
(* refer-to-floor-plan value and never "Check", for every combination of   *)
(* the other inputs, any dropdown selection included.  Stated of the       *)
(* openings the editor accepts.                                            *)
C9_AsStated ==
  (Calculated /\ edited_df.Housebuilder = "Bloor" /\ Enterable) =>
    results.Issue = ISSUE_REFER

(* C9 amended: for the guidance-only housebuilder the issue flag is the    *)
(* refer-to-floor-plan value for every combination of the other inputs     *)
(* whose dropdown selection is Auto or the 108 mm the housebuilder         *)
(* expects; with any other dropdown selection it is "Check".               *)
C9_GuidanceIssue ==
  (Calculated /\ edited_df.Housebuilder = "Bloor") =>
    IF edited_df.Dropdown_Select \in {"Auto", "108"}
    THEN results.Issue = ISSUE_REFER
    ELSE results.Issue = ISSUE_CHECK

(* The 108 mm the housebuilder expects is selected.                        *)
C9_Witness ==
  /\ IsBloor
  /\ Enterable
  /\ edited_df.Dropdown_Select = "108"
  /\ results.Issue = ISSUE_REFER

(* The declared input domain of the solver: the fixed door width is a      *)
(* number (width, height, doors and end panels are by construction).       *)
InDomain ==
  /\ IsNum(edited_df.Fixed_Door_Width_mm)
  /\ NumVal(edited_df.Width_mm) > 0
  /\ NumVal(edited_df.Height_mm) > 0
  /\ edited_df.Doors >= 2
  /\ edited_df.End_Panels \in {0, 1, 2}

HeightStack == BOTTOM_LINER_THICKNESS + TRACKSET_HEIGHT

C11_Scenario ==
  (/\ IsMtm
   /\ edited_df.Width_mm = Num(2200)
   /\ edited_df.Height_mm = Num(2600)
   /\ edited_df.Doors = 3
   /\ edited_df.Dropdown_Select = "108"
   /\ edited_df.End_Panels = 0
   /\ ~IsNum(hb_rule_of(edited_df.Housebuilder).locked_total_per_side)
   /\ edited_df.Door_Style = "Classic")
  =>
    /\ results.Total_Overlap_mm = Num(70)
    /\ results.Side_Left_Total_mm = H(18)
    /\ results.Side_Right_Total_mm = H(18)
    /\ results.Net_Width_mm = 2164
    /\ results.Door_Width_mm = Num(745)
    /\ results.Dropdown_Height_mm = 108
    /\ results.Door_Height_mm = 2402
    /\ results.Width_Status = "OK"
    /\ results.Height_Status = "OK"

(* The scenario for the non-client wardrobe with 108 selected.             *)
C11_Witness ==
  /\ IsMtm
  /\ edited_df.Width_mm = Num(2200)
  /\ edited_df.Height_mm = Num(2600)
  /\ edited_df.Doors = 3
  /\ edited_df.Dropdown_Select = "108"
  /\ edited_df.End_Panels = 0
  /\ edited_df.Housebuilder = NON_CLIENT
  /\ edited_df.Door_Style = "Classic"
  /\ results.Door_Width_mm = Num(745)
  /\ results.Door_Height_mm = 2402

(* The fixed-size sums of the width check, in whole millimetres.           *)
FixedNetPlusOverlap == results.Net_Width_mm + NumVal(results.Total_Overlap_mm)

FixedDoorSpan == NumVal(results.Door_Span_mm)

(* C12 as stated: in fixed-size mode door_span = door_count *              *)
(* fixed_door_width and width_status is OK if and only if net_width +      *)
(* total_overlap >= door_span.  Stated of the openings the editor accepts. *)
C12_AsStated ==
  (IsFixed /\ Enterable) =>
    /\ FixedDoorSpan = edited_df.Doors * NumVal(results.Door_Width_mm)
    /\ results.Width_Status = "OK" <=> FixedNetPlusOverlap >= FixedDoorSpan

(* C12 amended: in fixed-size mode door_span = door_count *                *)
(* fixed_door_width (3 doors of 762 give 2286) and width_status is OK if   *)
(* and only if net_width + total_overlap <= door_span, that is when the    *)
(* doors cover the net width; when it is not OK the status is "Opening too *)
(* wide" and the error names, in mm, by how much net_width + total_overlap *)
(* exceeds door_span.                                                      *)
C12_FixedWidthStatus ==
  IsFixed =>
    /\ FixedDoorSpan = edited_df.Doors * NumVal(results.Door_Width_mm)
    /\ (edited_df.Doors = 3 /\ results.Door_Width_mm = Num(762)) => FixedDoorSpan = 2286
    /\ results.Width_Status = "OK" <=> FixedNetPlusOverlap <= FixedDoorSpan
    /\ results.Width_Status # "OK" =>
         /\ results.Width_Status = "Opening too wide"
         /\ results.Errors # <<>>
         /\ results.Errors[1] = <<"Opening too wide by", FixedNetPlusOverlap - FixedDoorSpan>>

(* Three 762 doors between two end panels in 2200: 2164 + 150 is 28 mm     *)
(* more than 2286.                                                         *)
C12_Witness ==
  /\ IsFixed
  /\ edited_df.Doors = 3
  /\ FixedDoorSpan = 2286
  /\ FixedNetPlusOverlap = 2314
  /\ results.Width_Status = "Opening too wide"
  /\ results.Errors[1] = <<"Opening too wide by", 28>>

C14_AsStated ==
  ((IsMtm \/ IsFixed) /\ Enterable) =>
    results.Total_Overlap_mm =
      Num(overlaps_count(edited_df.Doors) * DOOR_STYLE_OVERLAP[edited_df.Door_Style])

(* C14 amended: in made-to-measure mode total_overlap =                    *)
(* meeting_overlap_count(door_count) * overlap_per_meeting of the selected *)
(* (recognised) door style.  In fixed-size mode total_overlap does not     *)
(* depend on the style: it is 75 for 2 doors and 150 for 3 or more, and    *)
(* this value is the one used as the build-out target and in the width     *)
(* check (coverage = door_span - total_overlap).                           *)
C14_TotalOverlap ==
  /\ (IsMtm /\ edited_df.Door_Style \in DOOR_STYLE_OPTIONS) =>
       results.Total_Overlap_mm =
         Num(overlaps_count(edited_df.Doors) * DOOR_STYLE_OVERLAP[edited_df.Door_Style])
  /\ IsFixed =>
       /\ results.Total_Overlap_mm = Num(IF edited_df.Doors = 2 THEN 75 ELSE 150)
       /\ NumVal(results.Coverage_mm) = FixedDoorSpan - NumVal(results.Total_Overlap_mm)
       /\ results.Width_Status = "OK" <=>
            results.Net_Width_mm <= FixedDoorSpan - NumVal(results.Total_Overlap_mm)
       /\ (edited_df.End_Panels = 0 /\ FixedRequired >= H(136)) =>
            H(results.Net_Width_mm) =
              H(FixedDoorSpan) - H(NumVal(results.Total_Overlap_mm))

(* Three fixed Classic doors: 150, where the style would give 2 * 35.      *)
C14_Witness ==
  /\ IsFixed
  /\ edited_df.Doors = 3
  /\ edited_df.Door_Style = "Classic"
  /\ results.Total_Overlap_mm = Num(150)
  /\ overlaps_count(edited_df.Doors) * DOOR_STYLE_OVERLAP[edited_df.Door_Style] = 70

(* C15 as stated: with a door style that is not one of the recognised      *)
(* styles the solver does not fail and uses an overlap of 35 mm per        *)
(* meeting: total_overlap = meeting_overlap_count(door_count) * 35.        *)
C15_AsStated ==
  (/\ Calculated /\ ~IsBloor /\ ~use_fixed_solver(edited_df)
   /\ NumVal(edited_df.Width_mm) >= MIN_OPENING
   /\ NumVal(edited_df.Height_mm) >= MIN_OPENING
   /\ edited_df.Door_Style \notin DOOR_STYLE_OPTIONS)
  =>
    /\ IsMtm
    /\ results.Total_Overlap_mm = Num(overlaps_count(edited_df.Doors) * 35)

(* The result for the same row with 762 selected as fixed door width.      *)
ResultFor762 == calculate([edited_df EXCEPT !.Fixed_Door_Width_mm = Num(762)])

UnrecognisedFixedWidth ==
  /\ IsNum(edited_df.Fixed_Door_Width_mm)
  /\ NumVal(edited_df.Fixed_Door_Width_mm) \notin {610, 762, 914}

RuleDropdown == hb_rule_of(edited_df.Housebuilder).dropdown

SelectedDropdown == parse_dropdown_select(edited_df.Dropdown_Select)

(* C17 as stated: in made-to-measure mode the dropdown height of the       *)
(* result equals min(dropdown_mm of the housebuilder's rule, 400) for      *)
(* every input.  Stated of the openings the editor accepts.                *)
C17_AsStated ==
  (IsMtm /\ Enterable) =>
    results.Dropdown_Height_mm = Min(RuleDropdown, 400)

(* C17 amended: in made-to-measure mode the dropdown height of the result  *)
(* is min(dropdown_mm of the housebuilder's rule, 400) when the dropdown   *)
(* selection is Auto, and the selected number limited to 0..400 when a     *)
(* number is selected, whatever the rule says (a selection that differs    *)
(* from the rule adds a warning and does not change the height used).      *)
C17_MtmDropdown ==
  IsMtm =>
    /\ edited_df.Dropdown_Select = "Auto" =>
         results.Dropdown_Height_mm = Min(RuleDropdown, 400)
    /\ edited_df.Dropdown_Select # "Auto" =>
         /\ results.Dropdown_Height_mm = Max(0, Min(SelectedDropdown[2], 400))
         /\ SelectedDropdown[2] # RuleDropdown =>
              results.Warnings # <<>> /\ results.Warnings[1][1] = "Housebuilder expects"

(* 450 selected against a rule of 50: the dropdown is 400.                 *)
C17_Witness ==
  /\ IsMtm
  /\ edited_df.Dropdown_Select = "450"
  /\ RuleDropdown = 50
  /\ results.Dropdown_Height_mm = 400

(* The unclamped door height of a made-to-measure result, in mm.           *)
MtmRawDoorHeight ==
  NumVal(edited_df.Height_mm) - 36 - 54 - results.Dropdown_Height_mm

(* C18: in made-to-measure mode door_height = clamp(height - 36 - 54 -     *)
(* dropdown, 0, 2500), and height_status is "Opening too small (height)"   *)
(* when the unclamped value is negative.                                   *)
C18_MtmDoorHeight ==
  IsMtm =>
    /\ results.Door_Height_mm = Max(0, Min(MtmRawDoorHeight, 2500))
    /\ MtmRawDoorHeight < 0 => results.Height_Status = "Opening too small (height)"

(* 60 mm of height: negative, clamped to 0 and flagged.                    *)
C18_Witness ==
  /\ IsMtm
  /\ MtmRawDoorHeight < 0
  /\ results.Door_Height_mm = 0
  /\ results.Height_Status = "Opening too small (height)"

(* The unclamped dropdown of a fixed-size result, in mm.                   *)
FixedRawDropdown ==
  NumVal(edited_df.Height_mm) - 36 - 54 - results.Door_Height_mm

(* C19: in fixed-size mode dropdown_h = clamp(height - 36 - 54 -           *)
(* door_height, 0, 400), and height_status flags the opening as too short  *)
(* when the unclamped value is negative.                                   *)
C19_FixedDropdown ==
  IsFixed =>
    /\ results.Dropdown_Height_mm = Max(0, Min(FixedRawDropdown, 400))
    /\ FixedRawDropdown < 0 => results.Height_Status = "Opening too small (height)"

(* 2800 of height: 487 mm unclamped, 400 reported.                         *)
C19_Witness ==
  /\ IsFixed
  /\ FixedRawDropdown = 487
  /\ results.Dropdown_Height_mm = 400

(* C20 as stated: whenever a height value is capped at its maximum,        *)
(* height_status is not OK: in made-to-measure mode when the unclamped     *)
(* door height exceeds 2500, in fixed-size mode when the unclamped         *)
(* dropdown exceeds 400.  Stated of the openings the editor accepts.       *)
C20_AsStated ==
  Enterable =>
    /\ (IsMtm /\ MtmRawDoorHeight > 2500) => results.Height_Status # "OK"
    /\ (IsFixed /\ FixedRawDropdown > 400) => results.Height_Status # "OK"

LockedTotal == hb_rule_of(edited_df.Housebuilder).locked_total_per_side

LeftSide == <<results.Side_Left_Total_mm, NumVal(results.T_Liner_Left_mm)>>

RightSide == <<results.Side_Right_Total_mm, NumVal(results.T_Liner_Right_mm)>>

(* C21 as stated: when end_panel_count is 1, one side is 18 mm with no     *)
(* T-liner and the other side takes the housebuilder's locked total when   *)
(* the rule has one (in either mode), or otherwise, in fixed-size mode,    *)
(* the solved remainder: the required total build-out minus 18, passed     *)
(* through the T-liner rule.  Stated of the openings the editor accepts.   *)
C21_AsStated ==
  ((IsMtm \/ IsFixed) /\ Enterable /\ edited_df.End_Panels = 1) =>
    /\ LeftSide = <<H(18), 0>>
    /\ IsNum(LockedTotal) => RightSide[1] = H(NumVal(LockedTotal))
    /\ (~IsNum(LockedTotal) /\ IsFixed) =>
         RightSide = apply_t_liner_rule(FixedRequired - H(18))

(* C21 amended: when end_panel_count is 1, in made-to-measure mode both    *)
(* sides are 18 mm with no T-liner, whether or not the housebuilder rule   *)
(* has a locked total (the lock applies only with no end panels); in       *)
(* fixed-size mode the left side is 18 mm with no T-liner and the right    *)
(* side is the solved remainder, the required total build-out minus 18     *)
(* passed through the T-liner rule (18 when the remainder is 18 or less,   *)
(* otherwise 18 + max(remainder - 18, 50)).                                *)
C21_OneEndPanel ==
  /\ (IsMtm /\ edited_df.End_Panels = 1) =>
       /\ LeftSide = <<H(18), 0>>
       /\ RightSide = <<H(18), 0>>
  /\ (IsFixed /\ edited_df.End_Panels = 1) =>
       /\ LeftSide = <<H(18), 0>>
       /\ FixedRequired - H(18) <= H(18) => RightSide = <<H(18), 0>>
       /\ FixedRequired - H(18) > H(18) =>
            /\ RightSide[2] = Max(FixedRequired - H(18) - H(18), H(50))
            /\ RightSide[1] = H(18) + RightSide[2]

(* A housebuilder with a locked 68 mm build-out, one end panel, made to    *)
(* measure: the other side is 18 mm, not 68.                               *)
C21_Witness ==
  /\ IsMtm
  /\ edited_df.End_Panels = 1
  /\ LockedTotal = Num(68)
  /\ LeftSide = <<H(18), 0>>
  /\ RightSide = <<H(18), 0>>

(* C22: when end_panel_count is 0 and the housebuilder rule has a locked   *)
(* total build-out per side, both side totals equal the locked value and   *)
(* each T-liner equals max(locked - 18, 0), whatever the width and door    *)
(* count; when end_panel_count is 0, there is no lock and the mode is made *)
(* to measure, both sides are 18 with T-liner 0.                           *)
C22_LockedBuildOut ==
  (Solved /\ edited_df.End_Panels = 0) =>
    /\ IsNum(LockedTotal) =>
         /\ LeftSide = <<H(NumVal(LockedTotal)), Max(H(NumVal(LockedTotal)) - H(18), 0)>>
         /\ RightSide = LeftSide
    /\ (~IsNum(LockedTotal) /\ IsMtm) =>
         /\ LeftSide = <<H(18), 0>>
         /\ RightSide = <<H(18), 0>>

(* A locked 68 mm build-out on an opening of 136 mm: 68 and 68, T-liners   *)
(* of 50, nothing left for the doors.                                      *)
C22_Witness ==
  /\ IsMtm
  /\ edited_df.End_Panels = 0
  /\ LockedTotal = Num(68)
  /\ InWidth = H(136)
  /\ LeftSide = <<H(68), H(50)>>
  /\ RightSide = <<H(68), H(50)>>

(* C24: in every made-to-measure or fixed-size result, each side's T-liner *)
(* is either 0 or at least 50 mm and the side total equals 18 + T-liner,   *)
(* so no side total lies strictly between 18 and 68 mm.                    *)
C24_LinerStock ==
  (IsMtm \/ IsFixed) =>
    \A side \in {LeftSide, RightSide} :
      /\ side[2] = 0 \/ side[2] >= H(50)
      /\ side[1] = H(18) + side[2]
      /\ ~(side[1] > H(18) /\ side[1] < H(68))

(* 105 mm to build out with no end panel: 52.5 mm a side is raised to 68.  *)
C24_Witness ==
  /\ IsFixed
  /\ edited_df.End_Panels = 0
  /\ FixedRequired = H(105)
  /\ LeftSide = <<H(68), H(50)>>
  /\ RightSide = <<H(68), H(50)>>

MtmNetWidth == InWidth - results.Side_Left_Total_mm - results.Side_Right_Total_mm

(* C25: in made-to-measure mode width_status is OK if and only if          *)
(* net_width > 0; when net_width <= 0 the status is "Opening too small     *)
(* (width)" and an error is recorded.                                      *)
C25_MtmWidthStatus ==
  IsMtm =>
    /\ results.Width_Status = "OK" <=> MtmNetWidth > 0
    /\ MtmNetWidth <= 0 =>
         /\ results.Width_Status = "Opening too small (width)"
         /\ \E i \in DOMAIN results.Errors :
              results.Errors[i] = <<"Opening too small (width) after side deductions.">>
         /\ results.Issue = ISSUE_CHECK

(* The boundary: a net width of exactly 0.                                 *)
C25_Witness ==
  /\ IsMtm
  /\ MtmNetWidth = 0
  /\ results.Width_Status = "Opening too small (width)"
  /\ results.Errors # <<>>

DropdownMismatch == ~SelectedDropdown[1] /\ SelectedDropdown[2] # RuleDropdown

DropdownWarned ==
  \E i \in DOMAIN results.Warnings : results.Warnings[i][1] = "Housebuilder expects"

(* C28: when the dropdown selection is not Auto and differs from the       *)
(* housebuilder's required dropdown, a warning is recorded and the overall *)
(* issue flag is "Check" in every mode, including fixed-size mode (where   *)
(* the selection does not affect the computed dropdown) and guidance-only  *)
(* mode; when the selection is Auto or equals the required value,          *)
(* Dropdown_Type_Status is "OK" and no such warning is recorded.           *)
C28_DropdownMismatch ==
  Solved =>
    /\ DropdownMismatch =>
         /\ \E i \in DOMAIN results.Warnings :
              results.Warnings[i] =
                <<"Housebuilder expects", RuleDropdown, SelectedDropdown[2]>>
         /\ results.Dropdown_Type_Status # <<"OK">>
         /\ results.Issue = ISSUE_CHECK
    /\ ~DropdownMismatch =>
         /\ results.Dropdown_Type_Status = <<"OK">>
         /\ ~DropdownWarned

(* Fixed-size mode, 50 selected where the rule says 90: the only finding   *)
(* is the warning, the flag is "Check" and the dropdown is still the one   *)
(* the 2223 mm door leaves.                                                *)
C28_Witness ==
  /\ IsFixed
  /\ DropdownMismatch
  /\ edited_df.Dropdown_Select = "50"
  /\ results.Errors = <<>>
  /\ results.Warnings = <<<<"Housebuilder expects", 90, 50>>>>
  /\ results.Issue = ISSUE_CHECK
  /\ FixedRawDropdown = 287
  /\ results.Dropdown_Height_mm = 287

Resolved == b_out # NOT_SOLVED

(* required = width - (door_span - total_overlap), in half millimetres.    *)
BuildoutRequired == b_in.width_mm - (b_in.door_span_mm - b_in.total_overlap_mm)

BuildoutNetWidth == b_in.width_mm - b_out[1] - b_out[2]

BuildoutCoverage == b_in.door_span_mm - b_in.total_overlap_mm

NoLock == b_in.locked_total_per_side = NoneVal

(* C23: in fixed-size mode with no end panels and no locked build-out,     *)
(* with required = width - (door_span - total_overlap): if required <= 36  *)
(* both sides are 18 with T-liner 0; otherwise the required total is split *)
(* evenly and each side is apply_t_liner_rule(required / 2), that is 18 +  *)
(* max(required / 2 - 18, 50), so left and right are equal.                *)
C23_EvenSplit ==
  (Resolved /\ b_in.end_panels = 0 /\ NoLock) =>
    /\ BuildoutRequired <= H(36) => b_out[1] = H(18) /\ b_out[2] = H(18)
                                     /\ b_out[3] = 0 /\ b_out[4] = 0
    /\ BuildoutRequired > H(36) =>
         /\ 2 * b_out[3] = Max(BuildoutRequired - 2 * H(18), 2 * H(50))
         /\ b_out[1] = H(18) + b_out[3]
         /\ b_out[2] = b_out[1]
         /\ b_out[4] = b_out[3]

(* 155 mm to build out: 77.5 mm a side, 18 + a T-liner of 59.5.            *)
C23_Witness ==
  /\ Resolved
  /\ b_in.end_panels = 0
  /\ NoLock
  /\ BuildoutRequired = H(155)
  /\ b_out[1] = H(77) + 1
  /\ b_out[2] = H(77) + 1
  /\ b_out[3] = H(59) + 1
  /\ b_out[4] = H(59) + 1

Recalculated(df) ==
  IF IsNum(df.Width_mm) /\ IsNum(df.Height_mm) THEN calculate(df) ELSE STOPPED

C29_RerunTerminates ==
  [][/\ reruns' \in {0, 1}
     /\ prev_hb' = Num(edited_df'.Housebuilder)
     /\ ~IsNum(prev_hb) => reruns' = 0
     /\ ResetOpening => reruns' = 0
     /\ (IsNum(prev_hb) /\ ~ResetOpening) =>
          (reruns' = 1 <=> edited_df'.Housebuilder # NumVal(prev_hb))]_vars

(* The housebuilder was changed to Story: one rerun, prev_hb follows.      *)
C29_Witness ==
  /\ reruns = 1
  /\ prev_hb = Num("Story")
  /\ edited_df.Housebuilder = "Story"

(* C30: on the Home page the session flag authenticated starts false,      *)
(* becomes true only in a run where the entered PIN equals CORRECT_PIN,    *)
(* never reverts to false within the session, and the main portal content  *)
(* is rendered only in runs where authenticated is already true; a wrong   *)
(* or empty PIN leaves authenticated unchanged and stops the run.          *)
C30_PinGate ==
  [][/\ authenticated = NoneVal => ~home_runs'[1].at_gate
     /\ authenticated = Num(TRUE) => authenticated' = Num(TRUE)
     /\ \A i \in DOMAIN home_runs' :
          LET run == home_runs'[i]
          IN  /\ (run.authenticated /\ ~run.at_gate) => run.pin = CORRECT_PIN
              /\ run.at_gate => run.authenticated
              /\ run.shown = MAIN_APP => run.at_gate
              /\ (~run.at_gate /\ run.pin # CORRECT_PIN) =>
                   /\ ~run.authenticated
                   /\ ~run.rerun
                   /\ run.shown \in {LOGIN, INCORRECT_PIN}
                   /\ i = Len(home_runs')
     /\ authenticated' = Num(home_runs'[Len(home_runs')].authenticated)]_vars

(* The right PIN was entered: the run that took it showed the login screen *)
(* and ended in a rerun, the run after it showed the main app.             *)
C30_Witness ==
  /\ authenticated = Num(TRUE)
  /\ Len(home_runs) = 2
  /\ home_runs[1].pin = CORRECT_PIN
  /\ ~home_runs[1].at_gate
  /\ home_runs[1].shown = LOGIN
  /\ home_runs[2].at_gate
  /\ home_runs[2].shown = MAIN_APP

====
